---- MODULE Spec2Model ----
(***************************************************************************)
(* Responsive navigation toggle of assets/js/app.js.                       *)
(*                                                                         *)
(* Two handlers are registered on document ready: a click handler on       *)
(* '.mobile-nav-btn' (fadeToggle of 'nav', toggleClass 'open' on the       *)
(* button) and a resize handler on window (forces 'nav' display and, on a  *)
(* wide viewport, removes 'open').  The jQuery calls are modelled by what  *)
(* they do to the document: css/removeClass/toggleClass act at once on     *)
(* every matched element, fadeToggle('fast') appends a timed animation to  *)
(* the element's effects queue whose last step runs from a later timer.    *)
(***************************************************************************)
EXTENDS Integers, FiniteSets, Sequences, TLC

VARIABLES width,        \* $(window).width()
          navPresent,   \* the document has a 'nav' element
          btnPresent,   \* the document has a '.mobile-nav-btn' element
          navShown,     \* nav's display is not 'none'
          btnOpen,      \* the button carries class 'open'
          fxRunning,    \* nav's running fade: "none", "show" or "hide"
          fxQueued,     \* fadeToggle calls waiting in nav's effects queue
          thrown,       \* a handler raised an exception
          last,         \* the last event and the state it was handled in
          prevEv,       \* the event before the last one
          clicks,       \* clicks handled since the last load/resize
          fromClosed,   \* the last load/resize left the panel closed, no fade pending
          btn0,         \* the indicator as the last load/resize left it
          step,         \* position in the 1200/800/click/1200/800 scenario, -1 when off it
          outcomes      \* the states resize handling has left, per width

vars == <<width, navPresent, btnPresent, navShown, btnOpen, fxRunning, fxQueued,
          thrown, last, prevEv, clicks, fromClosed, btn0, step, outcomes>>

\* ---- bounds ----
MaxQueue == 2
MaxClicks == 3

\* ---- program constants ----
Breakpoint == 992
NarrowMax == 991

Widths == {0, 800, 991, 992, 1200, 2000}

\* ---- the document as the handlers see it ----
Dom == [navShown |-> navShown, btnOpen |-> btnOpen, fxRunning |-> fxRunning,
        fxQueued |-> fxQueued, thrown |-> thrown]

\* $('nav') and $('.mobile-nav-btn'): the set of matched elements
SelectNav == IF navPresent THEN {"nav"} ELSE {}
SelectBtn == IF btnPresent THEN {"btn"} ELSE {}

\* page load: the stylesheet shows the panel on a wide viewport only,
\* and the markup carries no 'open' class
InitialDisplay(w) == w >= Breakpoint
InitialOpen == FALSE

\* .css('display', 'block' | 'none') on a selection
cssThrowing(sel, d, shown) ==
    IF sel = {} THEN [d EXCEPT !.thrown = TRUE] ELSE [d EXCEPT !.navShown = shown]
css(sel, d, shown) ==
    IF sel = {} THEN d ELSE [d EXCEPT !.navShown = shown]

\* .removeClass('open') on a selection
removeClass(sel, d) ==
    IF sel = {} THEN d ELSE [d EXCEPT !.btnOpen = FALSE]

\* .toggleClass('open') on a selection
addClass(sel, d) ==
    IF sel = {} THEN d ELSE [d EXCEPT !.btnOpen = TRUE]
toggleClass(sel, d) ==
    IF sel = {} THEN d ELSE [d EXCEPT !.btnOpen = ~@]

\* a fade leaves the queue: a hidden panel is displayed at once and faded
\* in, a displayed one is faded out and hidden by the fade's last step
StartToggle(d) ==
    IF d.navShown THEN [d EXCEPT !.fxRunning = "hide"]
    ELSE [d EXCEPT !.navShown = TRUE, !.fxRunning = "show"]

\* .fadeToggle('fast') on a selection: starts at once when no fade is
\* running, waits in the queue otherwise
fadeToggle(sel, d) ==
    IF sel = {} THEN d
    ELSE IF d.fxRunning = "none" THEN StartToggle(d)
    ELSE [d EXCEPT !.fxQueued = @ + 1]

\* the running fade's last step, then the next queued fade starts
AnimComplete(d) ==
    LET d1 == [d EXCEPT !.navShown = IF d.fxRunning = "hide" THEN FALSE ELSE @,
                        !.fxRunning = "none"]
    IN IF d1.fxQueued > 0 THEN StartToggle([d1 EXCEPT !.fxQueued = @ - 1]) ELSE d1

\* the click handler; $(this) is the clicked button
onToggleClickNoClass(d) ==
    fadeToggle(SelectNav, d)
onToggleClick(d) ==
    LET d1 == fadeToggle(SelectNav, d)
    IN IF d1.thrown THEN d1 ELSE toggleClass({"btn"}, d1)

\* which branch of the resize handler a width takes
BranchGap(w) ==
    IF w >= Breakpoint THEN "wide" ELSE IF w < NarrowMax THEN "narrow" ELSE "none"
Branch(w) ==
    IF w >= Breakpoint THEN "wide" ELSE IF w <= NarrowMax THEN "narrow" ELSE "none"

\* the resize handler
onViewportResizeRestore(d, w) ==
    IF Branch(w) = "wide"
    THEN LET d1 == css(SelectNav, d, TRUE)
         IN IF d1.thrown THEN d1 ELSE removeClass(SelectBtn, d1)
    ELSE IF Branch(w) = "narrow" THEN css(SelectNav, d, d.btnOpen)
    ELSE d
onViewportResizeToggle(d, w) ==
    IF Branch(w) = "wide"
    THEN LET d1 == css(SelectNav, d, TRUE)
         IN IF d1.thrown THEN d1 ELSE toggleClass(SelectBtn, d1)
    ELSE IF Branch(w) = "narrow" THEN css(SelectNav, d, FALSE)
    ELSE d
onViewportResizeBlock(d, w) ==
    IF Branch(w) = "wide"
    THEN LET d1 == css(SelectNav, d, TRUE)
         IN IF d1.thrown THEN d1 ELSE removeClass(SelectBtn, d1)
    ELSE IF Branch(w) = "narrow" THEN css(SelectNav, d, TRUE)
    ELSE d
onViewportResizeClear(d, w) ==
    IF Branch(w) = "wide"
    THEN LET d1 == css(SelectNav, d, TRUE)
         IN IF d1.thrown THEN d1 ELSE removeClass(SelectBtn, d1)
    ELSE IF Branch(w) = "narrow"
    THEN LET d1 == css(SelectNav, d, FALSE)
         IN IF d1.thrown THEN d1 ELSE removeClass(SelectBtn, d1)
    ELSE d
onViewportResize(d, w) ==
    IF Branch(w) = "wide"
    THEN LET d1 == css(SelectNav, d, TRUE)
         IN IF d1.thrown THEN d1 ELSE removeClass(SelectBtn, d1)
    ELSE IF Branch(w) = "narrow" THEN css(SelectNav, d, FALSE)
    ELSE d

\* ---- helpers of the properties ----
Wide(w) == w >= Breakpoint
Narrow(w) == w <= NarrowMax
Complete == navPresent /\ btnPresent
Idle == fxRunning = "none" /\ fxQueued = 0
Odd(n) == n % 2 = 1
Snapshot(ev, w) == [ev |-> ev, nav |-> navShown, btn |-> btnOpen, w |-> width,
                    idle |-> Idle, branch |-> IF ev = "resize" THEN Branch(w) ELSE "none"]

\* the panel's display once every pending fade has completed
Settled ==
    LET base == IF fxRunning = "hide" THEN FALSE ELSE navShown
    IN IF Odd(fxQueued) THEN ~base ELSE base

\* ---- properties ----

\* C1: on a viewport of width >= 992 the panel is visible and the toggle
\* has no 'open' class, whatever clicks and resizes came before.
C1_WideShownNoIndicator ==
    (Complete /\ Wide(width)) => (navShown /\ ~btnOpen)

\* C2: right after the resize handler has run at a width <= 991 the panel
\* is hidden, whether or not a click had opened it.
C2_NarrowResizeHides ==
    (last.ev = "resize" /\ Narrow(width)) => ~navShown

C2_Witness ==
    /\ Complete /\ last.ev = "resize" /\ Narrow(width)
    /\ Narrow(last.w) /\ last.nav /\ last.btn /\ last.idle
    /\ ~navShown

\* C3: with the viewport held narrow and starting from the closed panel,
\* n clicks leave the indicator flipped n times and the panel, once its
\* fades have completed, open exactly when n is odd.
C3_ClicksAlternate ==
    (Complete /\ fromClosed) =>
        /\ btnOpen = (btn0 # Odd(clicks))
        /\ Settled = Odd(clicks)
        /\ Idle => (navShown = Odd(clicks))

C3_Witness ==
    Complete /\ fromClosed /\ clicks = 3 /\ Idle /\ navShown /\ btnOpen

\* C4: load at 1200, resize to 800, click, resize to 1200, resize to 800:
\* hidden/absent, visible/present, visible/absent, hidden/absent.
C4_Scenario ==
    /\ step = 1 => (~navShown /\ ~btnOpen)
    /\ step = 2 => (navShown /\ btnOpen)
    /\ step = 3 => (navShown /\ ~btnOpen)
    /\ step = 4 => (~navShown /\ ~btnOpen)

C4_Witness ==
    step = 4 /\ width = 800 /\ last.nav

\* C5: every width takes exactly one branch of the resize handler, the
\* wide one from 992 up and the narrow one up to 991, and two widths of
\* the same branch leave the same state from the same prior state.
C5_ExactlyOneBranch ==
    /\ \A w \in Widths : Branch(w) = IF w >= 992 THEN "wide" ELSE "narrow"
    /\ \A w1, w2 \in Widths :
          (Wide(w1) = Wide(w2)) => onViewportResize(Dom, w1) = onViewportResize(Dom, w2)
    /\ last.ev = "resize" => last.branch = IF width >= 992 THEN "wide" ELSE "narrow"
    /\ (last.ev = "resize" /\ navPresent) => (navShown = (width >= 992))

C5_Witness ==
    Complete /\ last.ev = "resize" /\ width = 991 /\ last.w = 992 /\ last.nav /\ ~navShown

\* C6: a resize event handled right after a resize event at the same width
\* leaves the panel and the indicator as the first one left them.
C6_ResizeIdempotent ==
    (last.ev = "resize" /\ prevEv = "resize" /\ last.w = width) =>
        (navShown = last.nav /\ btnOpen = last.btn)

C6_Witness ==
    /\ Complete /\ last.ev = "resize" /\ prevEv = "resize" /\ last.w = width
    /\ Wide(width) /\ navShown

\* C7: the state the resize handler leaves (panel, indicator) depends on
\* the width alone: all resize events at one width leave the same state.
C7_ResizeStateFromWidthAlone ==
    \A w \in Widths : Cardinality(outcomes[w]) <= 1

\* C8: with the panel or the toggle missing from the document no handler
\* raises an error, and the element that is there gets its usual effect.
C8_MissingElementNoOp ==
    /\ ~thrown
    /\ (~navPresent /\ last.ev = "click") =>
          (btnOpen = ~last.btn /\ ~navShown /\ Idle)
    /\ (~navPresent /\ last.ev = "resize") =>
          (btnOpen = (IF Wide(width) THEN FALSE ELSE last.btn) /\ ~navShown /\ Idle)
    /\ (~btnPresent /\ navPresent /\ last.ev = "resize") =>
          (navShown = Wide(width) /\ ~btnOpen)

C8_Witness ==
    /\ ~navPresent /\ btnPresent /\ last.ev = "resize" /\ Wide(width)
    /\ last.btn /\ ~btnOpen /\ ~thrown

\* C9: a handler's effect is complete when it returns: once a resize has
\* been handled and no click has been handled since, the panel stays as
\* the resize forced it (visible from 992 up, hidden up to 991).
C9_ResizeNotOverturned ==
    (navPresent /\ clicks = 0 /\ last.ev # "load") => (navShown = Wide(width))

\* C10: on a narrow viewport with no fade pending, the toggle carries
\* 'open' exactly when the panel is visible.
C10_IndicatorMatchesPanel ==
    (Complete /\ Narrow(width) /\ Idle) => (btnOpen <=> navShown)

\* C11: while the viewport stays narrow, the panel's open/closed state
\* changes only as the result of a click on the toggle (its handler or the
\* fade it started); no other event changes it.
C11_OnlyClickChanges ==
    (navPresent /\ Narrow(last.w) /\ Narrow(width) /\ navShown # last.nav) =>
        last.ev \in {"click", "anim"}

\* C11 as amended: while the viewport stays narrow, the panel is opened
\* only as the result of a click on the toggle; the one other event that
\* changes it is a resize event, which closes an open panel.
C11_OnlyClickOpens ==
    (navPresent /\ Narrow(last.w) /\ Narrow(width) /\ navShown # last.nav) =>
        \/ last.ev \in {"click", "anim"}
        \/ (last.ev = "resize" /\ last.nav /\ ~navShown)

C11_Witness ==
    /\ Complete /\ last.ev = "resize" /\ Narrow(last.w) /\ Narrow(width)
    /\ width # last.w /\ last.nav /\ ~navShown

\* C12: a resize handled at width <= 991 changes only the panel's display
\* (to hidden) and leaves the indicator as it was; one handled at width
\* >= 992 leaves the panel visible and the indicator removed; what a click
\* does is the same at every width.
C12_ResizeFrame ==
    /\ \A w \in Widths : Narrow(w) =>
          onViewportResize(Dom, w) = [Dom EXCEPT !.navShown = FALSE]
    /\ \A w \in Widths : Wide(w) =>
          onViewportResize(Dom, w) =
              [Dom EXCEPT !.navShown = navPresent, !.btnOpen = FALSE]
    /\ (last.ev = "resize" /\ Narrow(width)) => (btnOpen = last.btn /\ ~navShown)
    /\ (last.ev = "resize" /\ Wide(width)) => (navShown = navPresent /\ ~btnOpen)
    /\ (last.ev = "click" /\ navPresent) =>
          /\ btnOpen = ~last.btn
          /\ last.idle => (navShown /\ fxRunning = IF last.nav THEN "hide" ELSE "show")
          /\ ~last.idle => (navShown = last.nav /\ fxQueued > 0)

C12_Witness ==
    /\ Complete /\ last.ev = "resize" /\ Narrow(width)
    /\ last.btn /\ btnOpen /\ last.nav /\ ~navShown /\ ~Idle

\* ---- state machine ----
Apply(d) ==
    /\ navShown' = d.navShown
    /\ btnOpen' = d.btnOpen
    /\ fxRunning' = d.fxRunning
    /\ fxQueued' = d.fxQueued
    /\ thrown' = d.thrown

Init ==
    /\ width \in Widths
    /\ navPresent \in BOOLEAN
    /\ btnPresent \in BOOLEAN
    /\ navShown = (navPresent /\ InitialDisplay(width))
    /\ btnOpen = InitialOpen
    /\ fxRunning = "none"
    /\ fxQueued = 0
    /\ thrown = FALSE
    /\ last = [ev |-> "load", nav |-> navShown, btn |-> btnOpen, w |-> width,
               idle |-> TRUE, branch |-> "none"]
    /\ prevEv = "load"
    /\ clicks = 0
    /\ fromClosed = (Narrow(width) /\ navPresent /\ btnPresent)
    /\ btn0 = btnOpen
    /\ step = IF width = 1200 /\ navPresent /\ btnPresent THEN 0 ELSE -1
    /\ outcomes = [w \in Widths |-> {}]

\* a click on the toggle control
Click ==
    /\ btnPresent
    /\ clicks < MaxClicks
    /\ fxQueued < MaxQueue
    /\ Apply(onToggleClick(Dom))
    /\ last' = Snapshot("click", width)
    /\ prevEv' = last.ev
    /\ clicks' = clicks + 1
    /\ step' = IF step = 1 THEN 2 ELSE -1
    /\ UNCHANGED <<width, navPresent, btnPresent, fromClosed, btn0, outcomes>>

\* the viewport is resized to w and the resize event is handled
Resize(w) ==
    LET d == onViewportResize(Dom, w)
    IN /\ width' = w
       /\ Apply(d)
       /\ last' = Snapshot("resize", w)
       /\ prevEv' = last.ev
       /\ clicks' = 0
       /\ fromClosed' = (Narrow(w) /\ Complete /\ ~d.navShown
                          /\ d.fxRunning = "none" /\ d.fxQueued = 0)
       /\ btn0' = d.btnOpen
       /\ step' = IF step = 0 /\ w = 800 THEN 1
                  ELSE IF step = 2 /\ w = 1200 THEN 3
                  ELSE IF step = 3 /\ w = 800 THEN 4
                  ELSE -1
       /\ outcomes' = [outcomes EXCEPT ![w] = @ \cup {<<d.navShown, d.btnOpen>>}]
       /\ UNCHANGED <<navPresent, btnPresent>>

\* the timer of the running fade fires its last step
AnimDone ==
    /\ fxRunning # "none"
    /\ Apply(AnimComplete(Dom))
    /\ last' = Snapshot("anim", width)
    /\ prevEv' = last.ev
    /\ UNCHANGED <<width, navPresent, btnPresent, clicks, fromClosed, btn0, step, outcomes>>

Next ==
    \/ Click
    \/ \E w \in Widths : Resize(w)
    \/ AnimDone

Spec == Init /\ [][Next]_vars

TypeOK ==
    /\ width \in Widths
    /\ navShown \in BOOLEAN /\ btnOpen \in BOOLEAN
    /\ fxRunning \in {"none", "show", "hide"}
    /\ fxQueued \in 0..MaxQueue
    /\ clicks \in 0..MaxClicks
    /\ step \in -1..4
====
